---- MODULE Spec2Model ----
(***************************************************************************)
(* Model of app/utils/movie.py (LINE TODAY trending-movies scraper and its *)
(* Flex carousel) and app/utils/words.py (vocabulary lesson fetcher).      *)
(*                                                                         *)
(* Text is modelled as a sequence of tokens.  A token is a one-element     *)
(* piece of text the code's regular expressions and string tests cannot    *)
(* split: "background-image:", "url(", "data:", a quote, a blank, ...      *)
(* The dictionary keys of the source are Chinese; the model writes them in *)
(* ASCII: image, title, eng_title, rating, certificate, duration, genre,   *)
(* release, trailer (see Keys below), and the fallback label as            *)
(* <<"UNKNOWN_MOVIE">>.                                                    *)
(***************************************************************************)
EXTENDS Integers, Sequences, FiniteSets, TLC

VARIABLES
    pc,           \* position of the modelled call
    browser,      \* "none" | "open" | "closed"         (get_line_today_top_movies)
    playwright,   \* "none" | "running" | "stopped"     (the with-block)
    calls,        \* the page calls made so far, in order
    marker,       \* "pending" | "appeared" | "timeout" (wait_for_selector)
    failed,       \* the call that raised, or "none"
    scroll_i,     \* position in scroll_positions (the for loop)
    html,         \* the document handed to the parser
    movies,       \* the parser's result
    image_count,  \* the poster count the parser logs
    outcome,      \* how the call ended
    figure,       \* the poster element given to extract_image_url
    img_url,      \* its result
    movie_list,   \* get_movies: what get_line_today_top_movies returned
    ctor_fails,   \* get_movies: positions whose card construction raises
    message,      \* get_movies: the value returned
    movie,        \* create_movie_bubble: the record
    bubble,       \* create_movie_bubble: the card, or None
    response,     \* get_english_word: what chat_with_groq returned
    word_data     \* get_english_word: the record that reaches rendering

vars == <<pc, browser, playwright, calls, marker, failed, scroll_i, html, movies,
          image_count, outcome, figure, img_url, movie_list, ctor_fails,
          message, movie, bubble, response, word_data>>

loaderVars == <<browser, playwright, calls, marker, failed, scroll_i>>
parserVars == <<html, movies, image_count>>
imageVars  == <<figure, img_url>>
cardVars   == <<movie_list, ctor_fails, message>>
bubbleVars == <<movie, bubble>>
wordVars   == <<response, word_data>>

None == [none |-> TRUE]

\* The values of the variables a call does not use.
LoaderIdle ==
    /\ browser = "none"
    /\ playwright = "none"
    /\ calls = <<>>
    /\ marker = "pending"
    /\ failed = "none"
    /\ scroll_i = 1
ParserIdle == html = <<>> /\ movies = <<>> /\ image_count = 0
ImageIdle  == figure = [present |-> FALSE, has_style |-> FALSE, style |-> <<>>] /\ img_url = <<>>
CardIdle   == movie_list = <<>> /\ ctor_fails = {} /\ message = None
BubbleIdle == movie = <<>> /\ bubble = None
WordIdle   == response = None /\ word_data = None


Min(S) == CHOOSE x \in S : \A y \in S : x <= y
Max(S) == CHOOSE x \in S : \A y \in S : x >= y

\* All sequences over S of length at most n.
SeqUpTo(S, n) == UNION {[1..k -> S] : k \in 0..n}

----------------------------------------------------------------------------
(* Text helpers *)

Quotes == {"'", "\""}
Blanks == {" "}

\* str.strip(chars): drops the leading and trailing run of characters of cs.
PyStrip(s, cs) ==
    LET keep == {i \in 1..Len(s) : s[i] \notin cs}
    IN  IF keep = {} THEN <<>> ELSE SubSeq(s, Min(keep), Max(keep))

\* re.IGNORECASE: the pattern's letters match either case.
Lower(c) ==
    CASE c = "BACKGROUND-IMAGE:" -> "background-image:"
      [] c = "BACKGROUND:"       -> "background:"
      [] c = "URL("              -> "url("
      [] OTHER                   -> c

----------------------------------------------------------------------------
(* extract_image_url *)

\* The literal text each pattern puts before \s*url\( ; the third has none.
patterns == << <<"background-image:">>, <<"background:">>, <<>> >>

\* Index of the "url(" that a match attempt of pattern pat starting at i
\* reaches (the literal prefix, then \s*, then url\( ), or 0.
UrlOpenAt(style, pat, i) ==
    IF pat = <<>>
    THEN IF Lower(style[i]) = "url(" THEN i ELSE 0
    ELSE IF Lower(style[i]) # pat[1] THEN 0
         ELSE LET rest == {j \in (i+1)..Len(style) : style[j] \notin Blanks}
              IN  IF rest # {} /\ Lower(style[Min(rest)]) = "url("
                  THEN Min(rest) ELSE 0

\* ['"]?(.*?)['"]?\) from just after "url(" at index u: the optional quote is
\* taken when present, the lazy group ends at the first position where an
\* optional quote followed by ")" matches.  [found, group].
GroupAfter(style, u) ==
    LET s    == IF u + 1 <= Len(style) /\ style[u+1] \in Quotes THEN u + 2 ELSE u + 1
        ends == {e \in s..Len(style) :
                    \/ style[e] = ")"
                    \/ /\ style[e] \in Quotes
                       /\ e + 1 <= Len(style)
                       /\ style[e+1] = ")"}
    IN  IF ends = {} THEN [found |-> FALSE, group |-> <<>>]
        ELSE [found |-> TRUE, group |-> SubSeq(style, s, Min(ends) - 1)]

\* re.search(pattern, style, re.IGNORECASE): the leftmost match.
re_search(pat, style) ==
    LET starts == {i \in 1..Len(style) :
                      /\ UrlOpenAt(style, pat, i) # 0
                      /\ GroupAfter(style, UrlOpenAt(style, pat, i)).found}
    IN  IF starts = {} THEN [found |-> FALSE, group |-> <<>>]
        ELSE GroupAfter(style, UrlOpenAt(style, pat, Min(starts)))

\* match.group(1).strip('\'"').strip()
StripUrl(group) == PyStrip(PyStrip(group, Quotes), Blanks)

\* img_url and not img_url.startswith('data:')
AcceptUrl(u) == u # <<>> /\ u[1] # "data:"

\* The for loop over the patterns, from pattern k on.
RECURSIVE TryPatterns(_, _)
TryPatterns(style, k) ==
    IF k > Len(patterns) THEN <<>>
    ELSE LET m == re_search(patterns[k], style)
         IN  IF m.found /\ AcceptUrl(StripUrl(m.group))
             THEN StripUrl(m.group)
             ELSE TryPatterns(style, k + 1)

\* fig: [present, has_style, style], the item's figure.detailListItem-posterImage
extract_image_url(fig) ==
    IF ~fig.present \/ ~fig.has_style THEN <<>>
    ELSE TryPatterns(fig.style, 1)

----------------------------------------------------------------------------
(* Inputs of extract_image_url *)

MaxStyleLen == 3

StyleTokens == {"background-image:", "background:", "url(", ")", "'", " ",
                "data:", "DATA:", "h"}

\* One declaration of an inline style: property, url( ... ).
Declarations ==
    {pre \o <<"url(">> \o open \o body \o close \o <<")">> :
        pre   \in {<<"background-image:">>, <<"background:", " ">>,
                   <<"BACKGROUND-IMAGE:", " ">>, <<>>},
        open  \in {<<>>, <<"'">>, <<" ">>},
        body  \in {<<>>, <<"h">>, <<"g">>, <<"data:", "h">>, <<"DATA:", "h">>},
        close \in {<<>>, <<"'">>}}

Styles ==
    SeqUpTo(StyleTokens, MaxStyleLen)
        \cup Declarations
        \cup {a \o <<";">> \o b : a \in Declarations, b \in Declarations}

Figures ==
    {[present |-> FALSE, has_style |-> FALSE, style |-> <<>>],
     [present |-> TRUE,  has_style |-> FALSE, style |-> <<>>]}
        \cup {[present |-> TRUE, has_style |-> TRUE, style |-> s] : s \in Styles}

----------------------------------------------------------------------------
(* parse_movies_from_html, extract_movie_info, extract_text_content *)

\* The record keys of the source and the model's names for them:
\*   image = poster picture, title = native title, eng_title = original
\*   title, rating, certificate, duration, genre, release = release window,
\*   trailer = trailer link.
Keys == {"image", "title", "eng_title", "rating", "certificate", "duration",
         "genre", "release", "trailer"}

\* A child element looked up by tag and class: [present, text].
\* element.get_text(strip=True) if element else ""
extract_text_content(child) ==
    IF child.present THEN PyStrip(child.text, Blanks) ELSE <<>>

\* The record of one entry element.  The image, both titles and the rating
\* are always set (to "" when the child is missing); the trailer link only
\* when the anchor has an href.
extract_movie_info(item) ==
    LET base == [k \in {"image", "title", "eng_title", "rating"} |->
                    CASE k = "image"     -> extract_image_url(item.figure)
                      [] k = "title"     -> extract_text_content(item.h2)
                      [] k = "eng_title" -> extract_text_content(item.h3)
                      [] k = "rating"    -> extract_text_content(item.rating)]
    IN  IF item.trailer.present /\ item.trailer.has_href
        THEN base @@ ("trailer" :> (<<"https://today.line.me">> \o item.trailer.href))
        ELSE base

\* soup.find_all('li', class_='detailList-item'): document order.
IsEntry(el) == el.tag = "li" /\ "detailList-item" \in el.classes

\* if movie.get('title'): the key is present and its value is not "".
Truthy(m, k) == k \in DOMAIN m /\ m[k] # <<>>

\* The for loop of parse_movies_from_html from element i on, movies so far acc.
RECURSIVE ParseFrom(_, _, _)
ParseFrom(doc, i, acc) ==
    IF i > Len(doc) THEN acc
    ELSE IF IsEntry(doc[i]) /\ Truthy(extract_movie_info(doc[i]), "title")
         THEN ParseFrom(doc, i + 1, Append(acc, extract_movie_info(doc[i])))
         ELSE ParseFrom(doc, i + 1, acc)

\* A parser that keeps every entry, titled or not.
parse_every_entry(doc) ==
    LET entries == SelectSeq(doc, IsEntry)
    IN  [k \in 1..Len(entries) |-> extract_movie_info(entries[k])]

parse_movies_from_html(doc) == ParseFrom(doc, 1, <<>>)

\* sum(1 for m in movies if 'image' in m): the poster count of the log line.
LoggedImageCount(ms) == Cardinality({i \in 1..Len(ms) : "image" \in DOMAIN ms[i]})

----------------------------------------------------------------------------
(* Inputs of the parser *)

MaxDocLen == 3

NoChild   == [present |-> FALSE, text |-> <<>>]
NoTrailer == [present |-> FALSE, has_href |-> FALSE, href |-> <<>>]
NoFigure  == [present |-> FALSE, has_style |-> FALSE, style |-> <<>>]
Styled(s) == [present |-> TRUE, has_style |-> TRUE, style |-> s]

TitleNodes ==
    {NoChild,
     [present |-> TRUE, text |-> <<" ">>],
     [present |-> TRUE, text |-> <<"A">>],
     [present |-> TRUE, text |-> <<" ", "B", " ">>]}

EntryFigures ==
    {NoFigure,
     Styled(<<"background-image:", " ", "url(", "h", ")">>),
     Styled(<<"url(", "DATA:", "h", ")">>)}

Elements ==
    {[tag |-> "li", classes |-> {"detailList-item"}, h2 |-> t, h3 |-> NoChild,
      rating |-> NoChild, figure |-> f, trailer |-> NoTrailer] :
        t \in TitleNodes, f \in EntryFigures}
    \cup
    {[tag |-> "li", classes |-> {"detailList-item", "is-first"},
      h2 |-> [present |-> TRUE, text |-> <<"C">>],
      h3 |-> [present |-> TRUE, text |-> <<"E", " ">>],
      rating |-> [present |-> TRUE, text |-> <<"8">>],
      figure |-> [present |-> TRUE, has_style |-> FALSE, style |-> <<>>],
      trailer |-> [present |-> TRUE, has_href |-> TRUE, href |-> <<"/v">>]],
     [tag |-> "li", classes |-> {"other"},
      h2 |-> [present |-> TRUE, text |-> <<"A">>], h3 |-> NoChild,
      rating |-> NoChild, figure |-> NoFigure, trailer |-> NoTrailer],
     [tag |-> "div", classes |-> {"detailList-item"},
      h2 |-> [present |-> TRUE, text |-> <<"B">>], h3 |-> NoChild,
      rating |-> NoChild, figure |-> NoFigure, trailer |-> NoTrailer]}

Docs == SeqUpTo(Elements, MaxDocLen)

----------------------------------------------------------------------------
(* get_line_today_top_movies and scroll_and_load_images *)

MaxPageLen == 2

\* What page.content() can hand over.
PageDocs == SeqUpTo(Elements, MaxPageLen)

\* A scroll sequence that does not return to the top.
scroll_positions_no_return == <<0, 3, 6, 10>>

\* scroll_positions, in tenths of document.body.scrollHeight: 0, 0.3, 0.6, 1, 0.
scroll_positions == <<0, 3, 6, 10, 0>>

Call(name, arg) == [call |-> name, arg |-> arg]

\* A call on the page inside the try block: it is made, and either returns
\* (control goes on to next) or raises (control goes to the finally clause
\* and the exception leaves the function).
PageCall(at, name, arg, next) ==
    /\ pc = at
    /\ calls' = Append(calls, Call(name, arg))
    /\ \E ok \in BOOLEAN :
          IF ok
          THEN /\ pc' = next
               /\ UNCHANGED <<failed, outcome>>
          ELSE /\ pc' = "finally"
               /\ failed' = name
               /\ outcome' = "raised"

loaderRest == <<figure, img_url, movie_list, ctor_fails, message, movie,
                bubble, response, word_data>>

\* with sync_playwright() as p:
EnterPlaywright ==
    /\ pc = "start"
    /\ playwright' = "running"
    /\ pc' = "entered"
    /\ UNCHANGED <<browser, calls, marker, failed, scroll_i, parserVars,
                   outcome, loaderRest>>

\* browser = p.chromium.launch(headless=True), before the try block.
Launch ==
    /\ pc = "entered"
    /\ \E ok \in BOOLEAN :
          IF ok
          THEN /\ browser' = "open"
               /\ pc' = "launched"
               /\ UNCHANGED <<failed, outcome>>
          ELSE /\ failed' = "launch"
               /\ outcome' = "raised"
               /\ pc' = "exit_with"
               /\ UNCHANGED browser
    /\ UNCHANGED <<playwright, calls, marker, scroll_i, parserVars, loaderRest>>

\* page = browser.new_page(), still before the try block: when it raises,
\* the finally clause is not entered.
NewPage ==
    /\ pc = "launched"
    /\ \E ok \in BOOLEAN :
          IF ok
          THEN /\ pc' = "try"
               /\ UNCHANGED <<failed, outcome>>
          ELSE /\ failed' = "new_page"
               /\ outcome' = "raised"
               /\ pc' = "exit_with"
    /\ UNCHANGED <<browser, playwright, calls, marker, scroll_i, parserVars,
                   loaderRest>>

SetHeaders ==
    /\ PageCall("try", "set_extra_http_headers", 0, "headers")
    /\ UNCHANGED <<browser, playwright, marker, scroll_i, parserVars, loaderRest>>

SetViewport ==
    /\ PageCall("headers", "set_viewport_size", 1920, "viewport")
    /\ UNCHANGED <<browser, playwright, marker, scroll_i, parserVars, loaderRest>>

\* page.goto(LINE_TODAY_URL, timeout=20000): a failure, a timeout included,
\* is not caught here.
Goto ==
    /\ PageCall("viewport", "goto", 20000, "wait")
    /\ UNCHANGED <<browser, playwright, marker, scroll_i, parserVars, loaderRest>>

\* The timeout is logged and the function goes on to the scroll sequence.
WaitTimedOutFallsThrough ==
    /\ marker' = "timeout"
    /\ pc' = "scroll"
    /\ UNCHANGED <<failed, outcome, movies>>

\* The except PlaywrightTimeoutError branch: return [].
WaitTimedOut ==
    /\ marker' = "timeout"
    /\ outcome' = "returned"
    /\ movies' = <<>>
    /\ pc' = "finally"
    /\ UNCHANGED failed

\* page.wait_for_selector('li.detailList-item', timeout=15000)
WaitForSelector ==
    /\ pc = "wait"
    /\ calls' = Append(calls, Call("wait_for_selector", 15000))
    /\ \/ /\ marker' = "appeared"
          /\ pc' = "scroll"
          /\ UNCHANGED <<failed, outcome, movies>>
       \/ WaitTimedOut
       \/ /\ failed' = "wait_for_selector"
          /\ outcome' = "raised"
          /\ pc' = "finally"
          /\ UNCHANGED <<marker, movies>>
    /\ UNCHANGED <<browser, playwright, scroll_i, html, image_count, loaderRest>>

\* page.evaluate("window.scrollTo(0, document.body.scrollHeight * pos)")
ScrollTo ==
    /\ scroll_i <= Len(scroll_positions)
    /\ PageCall("scroll", "scrollTo", scroll_positions[scroll_i], "pause")
    /\ UNCHANGED <<browser, playwright, marker, scroll_i, parserVars, loaderRest>>

\* page.wait_for_timeout(1000), then the next position or the end of the loop.
ScrollPause ==
    /\ PageCall("pause", "wait_for_timeout", 1000,
                IF scroll_i < Len(scroll_positions) THEN "scroll" ELSE "reflow")
    /\ scroll_i' = IF pc' = "finally" THEN scroll_i ELSE scroll_i + 1
    /\ UNCHANGED <<browser, playwright, marker, parserVars, loaderRest>>

\* The script that forces a reflow and copies data-bg / data-background /
\* data-src into the background image.
ForceReflow ==
    /\ PageCall("reflow", "force_reflow", 0, "settle")
    /\ UNCHANGED <<browser, playwright, marker, scroll_i, parserVars, loaderRest>>

\* page.wait_for_timeout(3000)
Settle ==
    /\ PageCall("settle", "wait_for_timeout", 3000, "count")
    /\ UNCHANGED <<browser, playwright, marker, scroll_i, parserVars, loaderRest>>

\* image_count = page.evaluate(... [style*="background-image"] ... .length)
CountImages ==
    /\ PageCall("count", "count_images", 0, "content")
    /\ UNCHANGED <<browser, playwright, marker, scroll_i, parserVars, loaderRest>>

\* html = page.content()
Content ==
    /\ PageCall("content", "content", 0, "parse")
    /\ \E doc \in PageDocs : html' = IF pc' = "parse" THEN doc ELSE html
    /\ UNCHANGED <<browser, playwright, marker, scroll_i, movies, image_count,
                   loaderRest>>

\* return parse_movies_from_html(html)
Parse ==
    /\ pc = "parse"
    /\ calls' = Append(calls, Call("parse_movies_from_html", 0))
    /\ movies' = parse_movies_from_html(html)
    /\ image_count' = LoggedImageCount(movies')
    /\ outcome' = "returned"
    /\ pc' = "finally"
    /\ UNCHANGED <<browser, playwright, marker, failed, scroll_i, html, loaderRest>>

\* finally: browser.close()
Finally ==
    /\ pc = "finally"
    /\ browser' = "closed"
    /\ pc' = "exit_with"
    /\ UNCHANGED <<playwright, calls, marker, failed, scroll_i, parserVars,
                   outcome, loaderRest>>

\* Leaving the with block stops the Playwright driver; the call ends.
ExitWith ==
    /\ pc = "exit_with"
    /\ playwright' = "stopped"
    /\ pc' = "done"
    /\ UNCHANGED <<browser, calls, marker, failed, scroll_i, parserVars,
                   outcome, loaderRest>>

InitLoader ==
    /\ pc = "start"
    /\ outcome = "running"
    /\ LoaderIdle /\ ParserIdle /\ ImageIdle /\ CardIdle /\ BubbleIdle /\ WordIdle

NextLoader ==
    \/ EnterPlaywright
    \/ Launch
    \/ NewPage
    \/ SetHeaders
    \/ SetViewport
    \/ Goto
    \/ WaitForSelector
    \/ ScrollTo
    \/ ScrollPause
    \/ ForceReflow
    \/ Settle
    \/ CountImages
    \/ Content
    \/ Parse
    \/ Finally
    \/ ExitWith

SpecLoader == InitLoader /\ [][NextLoader]_vars

----------------------------------------------------------------------------
(* parse_movies_from_html and extract_image_url called on their own *)

InitParser ==
    /\ pc = "start"
    /\ outcome = "running"
    /\ html \in Docs
    /\ movies = <<>>
    /\ image_count = 0
    /\ LoaderIdle /\ ImageIdle /\ CardIdle /\ BubbleIdle /\ WordIdle

ParseDocument ==
    /\ pc = "start"
    /\ movies' = parse_movies_from_html(html)
    /\ image_count' = LoggedImageCount(movies')
    /\ outcome' = "returned"
    /\ pc' = "done"
    /\ UNCHANGED <<html, loaderVars, imageVars, cardVars, bubbleVars, wordVars>>

NextParser == ParseDocument

SpecParser == InitParser /\ [][NextParser]_vars

InitImage ==
    /\ pc = "start"
    /\ outcome = "running"
    /\ figure \in Figures
    /\ img_url = <<>>
    /\ LoaderIdle /\ ParserIdle /\ CardIdle /\ BubbleIdle /\ WordIdle

ExtractImage ==
    /\ pc = "start"
    /\ img_url' = extract_image_url(figure)
    /\ outcome' = "returned"
    /\ pc' = "done"
    /\ UNCHANGED <<figure, loaderVars, parserVars, cardVars, bubbleVars, wordVars>>

NextImage == ExtractImage

SpecImage == InitImage /\ [][NextImage]_vars

----------------------------------------------------------------------------
(* create_movie_bubble and get_movies *)

MAX_MOVIES == 10

\* The fallback label of the title text.
UnknownMovie == <<"UNKNOWN_MOVIE">>

TextComponent(t) == [type |-> "text", text |-> t]

\* movie.get(k, default)
Get(m, k, default) == IF k \in DOMAIN m THEN m[k] ELSE default

\* One text row per truthy field of ks, in order, each behind its icon.
RECURSIVE Rows(_, _, _)
Rows(m, ks, icons) ==
    IF ks = <<>> THEN <<>>
    ELSE (IF Truthy(m, Head(ks))
          THEN <<TextComponent(<<Head(icons), " ">> \o m[Head(ks)])>>
          ELSE <<>>)
         \o Rows(m, Tail(ks), Tail(icons))

\* The body of the try block: the card of a record.
BubbleContainer(m) ==
    LET hero ==
            IF Truthy(m, "image")
            THEN [type |-> "image", url |-> m["image"]]
            ELSE None
        title == <<TextComponent(Get(m, "title", UnknownMovie))>>
        eng == IF Truthy(m, "eng_title")
               THEN <<TextComponent(m["eng_title"])>> ELSE <<>>
        rating_box == Rows(m, <<"rating", "certificate">>, <<"STAR", "R18">>)
        rating == IF rating_box # <<>>
                  THEN <<[type |-> "box", contents |-> rating_box]>> ELSE <<>>
        info == Rows(m, <<"duration", "genre", "release">>,
                        <<"CLOCK", "FILM", "DATE">>)
        footer ==
            IF Truthy(m, "trailer")
            THEN [type |-> "box",
                  contents |-> <<[type |-> "button", uri |-> m["trailer"]]>>]
            ELSE None
    IN  [hero |-> hero,
         body |-> [type |-> "box", contents |-> title \o eng \o rating \o info],
         footer |-> footer]

\* create_movie_bubble(movie): the card, or None when building it raises
\* (except Exception: return None).  raises: whether a constructor of the
\* message SDK raises for this record.
create_movie_bubble(m, raises) == IF raises THEN None ELSE BubbleContainer(m)

\* A get_movies that drops the failed cards before cutting to MAX_MOVIES.
get_movies_filter_first(list, fails) ==
    LET all  == [i \in 1..Len(list) |-> create_movie_bubble(list[i], i \in fails)]
        kept == SelectSeq(all, LAMBDA b : b # None)
        shown == SubSeq(kept, 1, IF Len(kept) < MAX_MOVIES THEN Len(kept) ELSE MAX_MOVIES)
    IN  IF list = <<>> \/ shown = <<>> THEN None
        ELSE [alt_text |-> "movie chart",
              contents |-> [type |-> "carousel", contents |-> shown]]

\* get_movies() once get_line_today_top_movies has returned list; fails is
\* the set of positions whose card construction raises.
get_movies(list, fails) ==
    IF list = <<>> THEN None
    ELSE LET shown   == SubSeq(list, 1, IF Len(list) < MAX_MOVIES
                                        THEN Len(list) ELSE MAX_MOVIES)
             bubbles == [i \in 1..Len(shown) |->
                            create_movie_bubble(shown[i], i \in fails)]
             kept    == SelectSeq(bubbles, LAMBDA b : b # None)
         IN  IF kept # <<>>
             THEN [alt_text |-> "movie chart",
                   contents |-> [type |-> "carousel", contents |-> kept]]
             ELSE None

----------------------------------------------------------------------------
(* Inputs of get_movies and create_movie_bubble *)

MaxRecords == 11

\* A record as the parser returns it: the four keys it always sets, a
\* non-empty title; the title tells the records apart.
ParsedRecord(i) ==
    [k \in {"image", "title", "eng_title", "rating"} |->
        CASE k = "title" -> <<"T", ToString(i)>>
          [] k = "image" -> IF i % 2 = 1 THEN <<"h", ToString(i)>> ELSE <<>>
          [] OTHER       -> <<>>]

RecordLists == {[i \in 1..n |-> ParsedRecord(i)] : n \in 0..MaxRecords}

\* Records given to create_movie_bubble directly: any key may be missing,
\* the title and the image may also be the empty string.
Absent == <<"ABSENT">>

BubbleMovies ==
    {[k \in {k \in Keys : a[k] # Absent} |-> a[k]] :
        a \in {a \in [Keys -> {Absent, <<>>, <<"v">>}] :
                  \A k \in Keys \ {"title", "image"} : a[k] # <<>>}}

InitCards ==
    /\ pc = "start"
    /\ outcome = "running"
    /\ failed \in {"none", "get_line_today_top_movies"}
    /\ movie_list \in (IF failed = "none" THEN RecordLists ELSE {<<>>})
    /\ ctor_fails \in SUBSET (1..Len(movie_list))
    /\ message = None
    /\ browser = "none" /\ playwright = "none" /\ calls = <<>>
    /\ marker = "pending" /\ scroll_i = 1
    /\ ParserIdle /\ ImageIdle /\ BubbleIdle /\ WordIdle

\* get_movies(): an exception of get_line_today_top_movies is not caught.
GetMovies ==
    /\ pc = "start"
    /\ IF failed = "none"
       THEN /\ message' = get_movies(movie_list, ctor_fails)
            /\ outcome' = "returned"
       ELSE /\ outcome' = "raised"
            /\ UNCHANGED message
    /\ pc' = "done"
    /\ UNCHANGED <<movie_list, ctor_fails, loaderVars, parserVars, imageVars,
                   bubbleVars, wordVars>>

NextCards == GetMovies

SpecCards == InitCards /\ [][NextCards]_vars

InitBubble ==
    /\ pc = "start"
    /\ outcome = "running"
    /\ movie \in BubbleMovies
    /\ ctor_fails \in {{}, {1}}
    /\ bubble = None
    /\ movie_list = <<>> /\ message = None
    /\ LoaderIdle /\ ParserIdle /\ ImageIdle /\ WordIdle

CreateMovieBubble ==
    /\ pc = "start"
    /\ bubble' = create_movie_bubble(movie, 1 \in ctor_fails)
    /\ outcome' = "returned"
    /\ pc' = "done"
    /\ UNCHANGED <<movie, loaderVars, parserVars, imageVars, cardVars, wordVars>>

NextBubble == CreateMovieBubble

SpecBubble == InitBubble /\ [][NextBubble]_vars

----------------------------------------------------------------------------
(* get_english_word *)

required_fields == <<"word", "pronunciation", "part_of_speech", "definition_en",
                     "definition_zh", "example_sentence", "example_translation">>

RequiredSet == {required_fields[i] : i \in 1..Len(required_fields)}

\* Decoded JSON values.  A text is a sequence of tokens: "{" and "}", a
\* member token (a field name, standing for the member "name": "x" with its
\* separator), "[]" (an empty list), "[fields]" (the list of the seven field
\* names), "1", "null", "\"s\"" (a string literal) and "noise" (text that
\* is no JSON).
Dict(keys)  == [type |-> "dict", map |-> [k \in keys |-> <<"x">>]]
ListOf(xs)  == [type |-> "list", items |-> xs]
JNumber     == [type |-> "int"]
JNull       == [type |-> "null"]
JString     == [type |-> "str", text |-> <<"s">>]

JsonValues ==
    {Dict(ks) : ks \in SUBSET RequiredSet}
        \cup {ListOf({}), ListOf(RequiredSet), JNumber, JNull, JString}

\* json.loads(text): [ok, value]; ok = FALSE is json.JSONDecodeError.
json_loads(t) ==
    LET bad == [ok |-> FALSE, value |-> JNull]
    IN  IF Len(t) = 1
        THEN CASE t[1] = "[]"       -> [ok |-> TRUE, value |-> ListOf({})]
               [] t[1] = "[fields]" -> [ok |-> TRUE, value |-> ListOf(RequiredSet)]
               [] t[1] = "1"        -> [ok |-> TRUE, value |-> JNumber]
               [] t[1] = "null"     -> [ok |-> TRUE, value |-> JNull]
               [] t[1] = "\"s\""    -> [ok |-> TRUE, value |-> JString]
               [] OTHER             -> bad
        ELSE IF /\ Len(t) >= 2
                /\ t[1] = "{"
                /\ t[Len(t)] = "}"
                /\ \A i \in 2..(Len(t) - 1) : t[i] \in RequiredSet
             THEN [ok |-> TRUE, value |-> Dict({t[i] : i \in 2..(Len(t) - 1)})]
             ELSE bad

\* re.search(r'(\{.*\})', text, re.DOTALL): from the first "{" to the last
\* "}" after it.  [found, group].
BraceSpan(t) ==
    LET opens  == {i \in 1..Len(t) : t[i] = "{"}
        closes == {i \in 1..Len(t) : t[i] = "}"}
    IN  IF opens # {} /\ closes # {} /\ Min(opens) < Max(closes)
        THEN [found |-> TRUE, group |-> SubSeq(t, Min(opens), Max(closes))]
        ELSE [found |-> FALSE, group |-> <<>>]

\* The two string branches: direct parse, then the brace span.
\* [ok, value]; ok = FALSE is an exception caught by "except Exception".
RecoverFromText(t) ==
    IF json_loads(t).ok THEN json_loads(t)
    ELSE IF BraceSpan(t).found THEN json_loads(BraceSpan(t).group)
         ELSE [ok |-> FALSE, value |-> JNull]

\* The record substituted when recovery raises.
Fallback ==
    [type |-> "dict",
     map  |-> [k \in RequiredSet |-> IF k = "word" THEN <<"fallback">> ELSE <<"x">>]]

\* The try/except of get_english_word: word_data before the field loop.
\* r: [kind, text, is_str, json_ok, json]
Recover(r) ==
    CASE r.kind = "str" ->
            IF RecoverFromText(r.text).ok
            THEN RecoverFromText(r.text).value ELSE Fallback
      [] r.kind = "text" ->
            \* response.text[:200] raises on a text that is no string (None)
            IF r.is_str /\ RecoverFromText(r.text).ok
            THEN RecoverFromText(r.text).value ELSE Fallback
      [] r.kind = "json" ->
            IF r.json_ok THEN r.json ELSE Fallback
      [] OTHER -> Fallback

\* for field in required_fields: if field not in word_data: word_data[field] = ""
\* [ok, value]; ok = FALSE is a TypeError, raised outside every try block:
\*   a number or null does not support "in"; a list or a string does, but
\*   not the assignment word_data[field] = "".
FillRequired(w) ==
    CASE w.type = "dict" ->
            [ok |-> TRUE,
             value |-> [type |-> "dict",
                        map  |-> [k \in DOMAIN w.map \cup RequiredSet |->
                                    IF k \in DOMAIN w.map THEN w.map[k] ELSE <<>>]]]
      [] w.type = "list" ->
            [ok |-> RequiredSet \subseteq w.items, value |-> w]
      [] w.type = "str" ->
            \* "word" is no substring of the text
            [ok |-> FALSE, value |-> w]
      [] OTHER -> [ok |-> FALSE, value |-> w]

\* create_flex_bubble(word_data) and the alt text: word_data['word'] and the
\* other subscripts of the body are outside the try blocks, and raise on
\* anything but a dict that has the key.
Renders(w) == w.type = "dict" /\ RequiredSet \subseteq DOMAIN w.map

----------------------------------------------------------------------------
(* Inputs of get_english_word *)

MaxTextLen == 3

JsonTokens == {"{", "}", "word", "example_sentence", "[]", "[fields]", "1", "null",
               "\"s\"", "noise"}

\* An object with the members of an initial part of the required fields,
\* or of all but one, alone or inside other text.
Objects ==
    {<<"{">> \o SelectSeq(required_fields, LAMBDA f : f \in ks) \o <<"}">> :
        ks \in {{required_fields[i] : i \in 1..n} : n \in 0..Len(required_fields)}
               \cup {RequiredSet \ {f} : f \in RequiredSet}}

Texts ==
    SeqUpTo(JsonTokens, MaxTextLen)
        \cup {pre \o o \o post :
                pre \in {<<>>, <<"noise">>}, o \in Objects,
                post \in {<<>>, <<"noise">>, <<"noise", "}">>}}

Responses ==
    {[kind |-> "str", text |-> t, is_str |-> TRUE, json_ok |-> FALSE, json |-> JNull] :
        t \in Texts}
    \cup
    {[kind |-> "text", text |-> t, is_str |-> TRUE, json_ok |-> FALSE, json |-> JNull] :
        t \in Texts}
    \cup
    {[kind |-> "text", text |-> <<>>, is_str |-> FALSE, json_ok |-> FALSE, json |-> JNull],
     [kind |-> "json", text |-> <<>>, is_str |-> FALSE, json_ok |-> FALSE, json |-> JNull],
     [kind |-> "other", text |-> <<>>, is_str |-> FALSE, json_ok |-> FALSE, json |-> JNull]}
    \cup
    {[kind |-> "json", text |-> <<>>, is_str |-> FALSE, json_ok |-> TRUE, json |-> v] :
        v \in JsonValues}

InitWords ==
    /\ pc = "start"
    /\ outcome = "running"
    /\ response \in Responses
    /\ word_data = None
    /\ LoaderIdle /\ ParserIdle /\ ImageIdle /\ CardIdle /\ BubbleIdle

\* get_english_word(user_id) from the return of chat_with_groq on.
GetEnglishWord ==
    /\ pc = "start"
    /\ LET filled == FillRequired(Recover(response))
       IN  /\ word_data' = filled.value
           /\ outcome' = IF filled.ok /\ Renders(filled.value)
                         THEN "rendered" ELSE "raised"
    /\ pc' = "done"
    /\ UNCHANGED <<response, loaderVars, parserVars, imageVars, cardVars, bubbleVars>>

NextWords == GetEnglishWord

SpecWords == InitWords /\ [][NextWords]_vars

----------------------------------------------------------------------------
(* Properties of get_line_today_top_movies (SpecLoader) *)

\* C1: once the browser has been launched, it has been closed when the call
\* ends, on every exit path (return, marker timeout, any exception after the
\* launch, page creation included).
BrowserClosedOnEveryExit == pc = "done" => browser # "open"

ScrollCalls == {"scrollTo", "wait_for_timeout", "force_reflow", "count_images"}

\* C2: a marker-wait timeout ends the call with the empty list, without an
\* exception and without any scroll step, content capture or parser call;
\* a navigation failure ends it with the exception, never with a list.
FailureOutcomesDistinct ==
    /\ marker = "timeout" =>
          \A i \in 1..Len(calls) :
              calls[i].call \notin ScrollCalls \cup {"content", "parse_movies_from_html"}
    /\ pc = "done" /\ marker = "timeout" =>
          outcome = "returned" /\ movies = <<>> /\ failed = "none"
    /\ pc = "done" /\ failed = "goto" => outcome = "raised" /\ marker = "pending"

TimeoutReturnedEmpty ==
    /\ pc = "done"
    /\ marker = "timeout"
    /\ outcome = "returned"
    /\ calls[Len(calls)].call = "wait_for_selector"
    /\ browser = "closed"

ExpectedCalls ==
    <<[call |-> "set_extra_http_headers", arg |-> 0],
      [call |-> "set_viewport_size", arg |-> 1920],
      [call |-> "goto", arg |-> 20000],
      [call |-> "wait_for_selector", arg |-> 15000],
      [call |-> "scrollTo", arg |-> 0],  [call |-> "wait_for_timeout", arg |-> 1000],
      [call |-> "scrollTo", arg |-> 3],  [call |-> "wait_for_timeout", arg |-> 1000],
      [call |-> "scrollTo", arg |-> 6],  [call |-> "wait_for_timeout", arg |-> 1000],
      [call |-> "scrollTo", arg |-> 10], [call |-> "wait_for_timeout", arg |-> 1000],
      [call |-> "scrollTo", arg |-> 0],  [call |-> "wait_for_timeout", arg |-> 1000],
      [call |-> "force_reflow", arg |-> 0],
      [call |-> "wait_for_timeout", arg |-> 3000],
      [call |-> "count_images", arg |-> 0],
      [call |-> "content", arg |-> 0],
      [call |-> "parse_movies_from_html", arg |-> 0]>>

\* C9: the calls of a run are, in order and without a gap or a repetition,
\* headers, viewport, navigation, marker wait, the five scroll steps at 0,
\* 0.3, 0.6, 1.0, 0 each followed by its pause, the reflow script, the
\* settle wait, the image count, one content capture, one parser call; a
\* run in which the marker appears and nothing raises makes all of them.
StepsInOrder ==
    /\ Len(calls) <= Len(ExpectedCalls)
    /\ calls = SubSeq(ExpectedCalls, 1, Len(calls))
    /\ pc = "done" /\ marker = "appeared" /\ failed = "none" =>
          calls = ExpectedCalls /\ outcome = "returned"

FullRunParsed ==
    /\ pc = "done"
    /\ marker = "appeared"
    /\ failed = "none"
    /\ Len(calls) = 19
    /\ movies # <<>>

----------------------------------------------------------------------------
(* Properties of parse_movies_from_html (SpecParser) *)

\* The entry elements whose title element holds a character that is no blank.
TitledEntries(doc) ==
    SelectSeq(doc, LAMBDA el :
        /\ el.tag = "li"
        /\ "detailList-item" \in el.classes
        /\ el.h2.present
        /\ \E i \in 1..Len(el.h2.text) : el.h2.text[i] # " ")

\* C3: the parser returns the records of exactly the entry elements with a
\* non-empty title, in document order.
ParserKeepsTitledEntries ==
    pc = "done" =>
        /\ Len(movies) = Len(TitledEntries(html))
        /\ \A k \in 1..Len(movies) :
              /\ movies[k] = extract_movie_info(TitledEntries(html)[k])
              /\ movies[k]["title"] # <<>>

DroppedBetweenKept ==
    /\ pc = "done"
    /\ Len(html) = 3
    /\ Len(movies) = 2
    /\ IsEntry(html[1]) /\ IsEntry(html[2]) /\ IsEntry(html[3])
    /\ html[2].h2.text = <<" ">>
    /\ movies[1]["title"] = <<"B">>
    /\ movies[2]["title"] = <<"A">>

\* C10: the poster count the parser reports is the number of returned
\* records with a non-empty poster URL.
PosterCountCountsPosters ==
    pc = "done" =>
        image_count = Cardinality({i \in 1..Len(movies) : movies[i]["image"] # <<>>})

----------------------------------------------------------------------------
(* Properties of extract_image_url (SpecImage) *)

\* A URL of the inline-data scheme, in either letter case.
UsesDataScheme(u) == u # <<>> /\ u[1] \in {"data:", "DATA:"}

\* C6: the poster URL is the empty string or a URL that is not of the
\* inline-data scheme, whatever the letter case of the scheme.
PosterNeverDataUri == pc = "done" => ~UsesDataScheme(img_url)

\* The result when the first pattern that matches decides alone.
RECURSIVE FirstMatchDecides(_, _)
FirstMatchDecides(style, k) ==
    IF k > 3 THEN <<>>
    ELSE LET m == re_search(patterns[k], style)
         IN  IF ~m.found THEN FirstMatchDecides(style, k + 1)
             ELSE IF StripUrl(m.group) # <<>> /\ ~UsesDataScheme(StripUrl(m.group))
                  THEN StripUrl(m.group)
                  ELSE <<>>

\* C8: the first of the three patterns that matches decides the result (its
\* URL, or the empty string when that URL is empty or inline data); later
\* patterns are consulted only when every earlier one failed to match.
\* Stated for the styles that write the scheme in lower case.
FirstMatchingPatternDecides ==
    pc = "done" /\ figure.present /\ figure.has_style
                /\ (\A i \in 1..Len(figure.style) : figure.style[i] # "DATA:")
        => img_url = FirstMatchDecides(figure.style, 1)

----------------------------------------------------------------------------
(* Properties of get_movies and create_movie_bubble (SpecCards, SpecBubble) *)

\* The j-th smallest element of the set of numbers K.
Kth(K, j) == CHOOSE x \in K : Cardinality({y \in K : y < x}) = j - 1

\* C4: the carousel holds, in order, the cards of the records among the
\* first 10 whose construction succeeded, and nothing else; get_movies does
\* not raise; with no card left it returns None.
CarouselOfFirstTen ==
    pc = "done" /\ failed = "none" =>
        LET K == {i \in 1..Len(movie_list) : i <= 10 /\ i \notin ctor_fails}
        IN  /\ outcome = "returned"
            /\ K = {} => message = None
            /\ K # {} =>
                  /\ message # None
                  /\ message.contents.type = "carousel"
                  /\ Len(message.contents.contents) = Cardinality(K)
                  /\ Len(message.contents.contents) <= 10
                  /\ \A j \in 1..Cardinality(K) :
                        /\ message.contents.contents[j] # None
                        /\ message.contents.contents[j].body.contents[1].text
                              = movie_list[Kth(K, j)]["title"]

TailCutAfterFailure ==
    /\ pc = "done"
    /\ failed = "none"
    /\ Len(movie_list) = 11
    /\ ctor_fails = {2}
    /\ message # None
    /\ Len(message.contents.contents) = 9

\* C7: the title text of a card is the fallback label when the record's
\* title is missing or the empty string, and is never empty.
MissingTitleShowsFallback ==
    pc = "done" /\ bubble # None =>
        /\ ~Truthy(movie, "title") => bubble.body.contents[1].text = UnknownMovie
        /\ bubble.body.contents[1].text # <<>>

----------------------------------------------------------------------------
(* Properties of get_english_word (SpecWords) *)

\* C5: whatever chat_with_groq returned, the call reaches rendering without
\* an exception, with a record that has the seven required fields.
VocabularyAlwaysRenders ==
    pc = "done" =>
        /\ outcome = "rendered"
        /\ word_data.type = "dict"
        /\ RequiredSet \subseteq DOMAIN word_data.map

====
